---- MODULE Spec2Model ----
(***************************************************************************)
(* Model of src/auth/config.ts: the provider list built at module load,    *)
(* providerMap, the One Tap authorize function and the four callbacks      *)
(* (signIn, redirect, session, jwt) the auth framework invokes.            *)
(*                                                                         *)
(* JavaScript values are records tagged by `kind`; a string is a sequence  *)
(* of tokens, so that concatenation, startsWith and URL parsing are        *)
(* computed rather than assumed.                                           *)
(***************************************************************************)
EXTENDS Integers, Sequences, FiniteSets, TLC

VARIABLES
    env,          \* process.env as read at module load
    loaded,       \* whether the module's top-level code has run
    providers,    \* the module-scope provider list
    providerMap,  \* the exported {id, name} list
    op,           \* the callback invoked last ("none" before any call)
    inp,          \* its arguments and the outcomes of the collaborators it used
    out,          \* what it did: threw / returned value / collaborator calls
    pc,           \* position of the framework-driven sign-in flow
    fUser,        \* the flow's user (from authorize or the OAuth exchange)
    fAccount,     \* the flow's account
    fToken,       \* the flow's session token
    fSession,     \* the flow's session object
    fCo           \* how the collaborators answered this sign-in's jwt call

vars == <<env, loaded, providers, providerMap, op, inp, out,
          pc, fUser, fAccount, fToken, fSession, fCo>>

loadVars == <<env, loaded, providers, providerMap>>
callVars == <<op, inp, out>>
flowVars == <<pc, fUser, fAccount, fToken, fSession, fCo>>

-----------------------------------------------------------------------------
(* Bounds *)

MaxUrlLen == 4

-----------------------------------------------------------------------------
(* JavaScript values *)

Undef == [kind |-> "undefined"]
Null == [kind |-> "null"]
Str(s) == [kind |-> "string", s |-> s]
Bool(b) == [kind |-> "boolean", b |-> b]
DateNow == [kind |-> "date"]

\* Exceptions
TypeError == [kind |-> "error", name |-> "TypeError"]
SyntaxError == [kind |-> "error", name |-> "SyntaxError"]
ServiceError == [kind |-> "error", name |-> "Error"]

\* JavaScript truthiness: undefined, null, "" and false are falsy.
Truthy(v) ==
    CASE v.kind = "undefined" -> FALSE
      [] v.kind = "null" -> FALSE
      [] v.kind = "string" -> v.s # <<>>
      [] v.kind = "boolean" -> v.b
      [] OTHER -> TRUE

\* a || b
OrElse(a, b) == IF Truthy(a) THEN a ELSE b

\* What Array.prototype.join writes for one element: undefined and null
\* are written as the empty string.
JoinPart(v) == IF v.kind = "string" THEN v.s ELSE <<>>

-----------------------------------------------------------------------------
(* Module load: the provider list and providerMap (config.ts 12-115) *)

FlagVars == {"NEXT_PUBLIC_AUTH_GOOGLE_ONE_TAP_ENABLED",
             "NEXT_PUBLIC_AUTH_GOOGLE_ENABLED",
             "NEXT_PUBLIC_AUTH_GITHUB_ENABLED"}

SecretVars == {"NEXT_PUBLIC_AUTH_GOOGLE_ID", "AUTH_GOOGLE_ID", "AUTH_GOOGLE_SECRET",
               "AUTH_GITHUB_ID", "AUTH_GITHUB_SECRET"}

EnvVars == FlagVars \cup SecretVars

\* process.env values: a variable is unset (undefined) or holds a string.
FlagValues == {Undef, Str(<<"true">>), Str(<<"false">>)}
SecretValues == {Undef, Str(<<>>), Str(<<"id">>)}

Envs ==
    {[v \in EnvVars |-> IF v \in FlagVars THEN f[v] ELSE s[v]] :
        f \in [FlagVars -> FlagValues], s \in [SecretVars -> SecretValues]}

\* The descriptors the three provider factories return.
OneTapProvider ==
    [id |-> "google-one-tap", name |-> "google-one-tap", type |-> "credentials"]

GoogleProvider(clientId, clientSecret) ==
    [id |-> "google", name |-> "Google", type |-> "oidc",
     clientId |-> clientId, clientSecret |-> clientSecret]

GitHubProvider(clientId, clientSecret) ==
    [id |-> "github", name |-> "GitHub", type |-> "oauth",
     clientId |-> clientId, clientSecret |-> clientSecret]

\* The three conditions of the module's top-level ifs.
OneTapConfigured(e) ==
    /\ e["NEXT_PUBLIC_AUTH_GOOGLE_ONE_TAP_ENABLED"] = Str(<<"true">>)
    /\ Truthy(e["NEXT_PUBLIC_AUTH_GOOGLE_ID"])

GoogleConfiguredNoSecret(e) ==
    /\ e["NEXT_PUBLIC_AUTH_GOOGLE_ENABLED"] = Str(<<"true">>)
    /\ Truthy(e["AUTH_GOOGLE_ID"])

GoogleConfigured(e) ==
    /\ e["NEXT_PUBLIC_AUTH_GOOGLE_ENABLED"] = Str(<<"true">>)
    /\ Truthy(e["AUTH_GOOGLE_ID"])
    /\ Truthy(e["AUTH_GOOGLE_SECRET"])

GitHubConfigured(e) ==
    /\ e["NEXT_PUBLIC_AUTH_GITHUB_ENABLED"] = Str(<<"true">>)
    /\ Truthy(e["AUTH_GITHUB_ID"])
    /\ Truthy(e["AUTH_GITHUB_SECRET"])

\* providers = []; then up to three pushes, in source order.
BuildProviders(e) ==
    LET p0 == <<>>
        p1 == IF OneTapConfigured(e) THEN Append(p0, OneTapProvider) ELSE p0
        p2 == IF GoogleConfigured(e)
              THEN Append(p1, GoogleProvider(e["AUTH_GOOGLE_ID"], e["AUTH_GOOGLE_SECRET"]))
              ELSE p1
        p3 == IF GitHubConfigured(e)
              THEN Append(p2, GitHubProvider(e["AUTH_GITHUB_ID"], e["AUTH_GITHUB_SECRET"]))
              ELSE p2
    IN  p3

\* providers.map(p => ({id, name})) without the filter.
BuildProviderMapNoFilter(ps) ==
    [i \in 1..Len(ps) |-> [id |-> ps[i].id, name |-> ps[i].name]]

IsNotOneTap(p) == p.id # "google-one-tap"

\* providers.map(p => ({id, name})).filter(p => p.id !== "google-one-tap").
\* None of the three descriptors is a function, so the map takes its else
\* branch for each of them.
BuildProviderMap(ps) ==
    SelectSeq([i \in 1..Len(ps) |-> [id |-> ps[i].id, name |-> ps[i].name]],
              IsNotOneTap)

\* The module's top-level code, run once when the module is imported.
LoadModule ==
    /\ ~loaded
    /\ loaded' = TRUE
    /\ providers' = BuildProviders(env)
    /\ providerMap' = BuildProviderMap(BuildProviders(env))
    /\ UNCHANGED <<env, callVars, flowVars>>

-----------------------------------------------------------------------------
(* Strings and URLs (config.ts 151-157) *)

\* The tokens urls are written in. "https://" is a special scheme with its
\* two slashes, "js:" a non-special scheme, "/" a slash, the rest host or
\* path text ("APP" is "app" in upper case).
UrlTokens == {"/", "https://", "js:", "app", "APP", "evil"}

RECURSIVE SeqsUpTo(_, _)
SeqsUpTo(S, n) ==
    IF n = 0 THEN {<<>>}
    ELSE LET shorter == SeqsUpTo(S, n - 1)
         IN  shorter \cup {Append(s, x) : s \in shorter, x \in S}

Urls == SeqsUpTo(UrlTokens, MaxUrlLen)

\* The application's base url as the framework passes it: an origin, or
\* (misconfigured) an origin with a trailing slash.
BaseUrls == {<<"https://", "app">>, <<"https://", "evil">>, <<"https://", "app", "/">>}

\* url.startsWith(prefix) for a one-token prefix
StartsWith(s, tok) == s # <<>> /\ Head(s) = tok

\* The host parser lower-cases the host.
Lower(tok) == IF tok = "APP" THEN "app" ELSE tok

RECURSIVE SkipSlashes(_)
SkipSlashes(s) == IF StartsWith(s, "/") THEN SkipSlashes(Tail(s)) ELSE s

\* The authority of a special-scheme url: host text up to the first "/" or
\* the end. A ":" inside it (the one a scheme token carries) starts the
\* port, which must be empty or digits; no token here is a digit.
RECURSIVE ParseAuthority(_)
ParseAuthority(s) ==
    IF s = <<>> \/ Head(s) = "/" THEN [ok |-> TRUE, host |-> <<>>]
    ELSE IF Head(s) = "https://" THEN [ok |-> TRUE, host |-> <<"https">>]
    ELSE IF Head(s) = "js:"
         THEN [ok |-> Tail(s) = <<>> \/ Head(Tail(s)) = "/", host |-> <<"js">>]
    ELSE LET r == ParseAuthority(Tail(s))
         IN  [ok |-> r.ok, host |-> <<Lower(Head(s))>> \o r.host]

\* new URL(url).origin: the constructor throws a TypeError on a string with
\* no scheme, or with a special scheme and an empty host or a bad port; a
\* non-special scheme has the opaque origin, serialised "null".
ParseURL(url) ==
    IF url = <<>> \/ Head(url) \notin {"https://", "js:"}
    THEN [ok |-> FALSE, origin |-> <<>>]
    ELSE IF Head(url) = "js:" THEN [ok |-> TRUE, origin |-> <<"null">>]
    ELSE LET a == ParseAuthority(SkipSlashes(Tail(url)))
         IN  IF a.ok /\ a.host # <<>>
             THEN [ok |-> TRUE, origin |-> <<"https://">> \o a.host]
             ELSE [ok |-> FALSE, origin |-> <<>>]

Returned(v) == [threw |-> FALSE, value |-> v]
Thrown(e) == [threw |-> TRUE, value |-> e]

\* callbacks.redirect({ url, baseUrl })
RedirectCb(url, baseUrl) ==
    IF StartsWith(url, "/") THEN Returned(baseUrl \o url)
    ELSE IF ~ParseURL(url).ok THEN Thrown(TypeError)
    ELSE IF ParseURL(url).origin = baseUrl THEN Returned(url)
    ELSE Returned(baseUrl)

CallRedirect ==
    /\ loaded
    /\ op = "none"
    /\ \E url \in Urls, baseUrl \in BaseUrls :
          /\ op' = "redirect"
          /\ inp' = [url |-> url, baseUrl |-> baseUrl]
          /\ out' = RedirectCb(url, baseUrl)
    /\ UNCHANGED <<loadVars, flowVars>>

-----------------------------------------------------------------------------
(* callbacks.signIn (config.ts 140-150) *)

\* Variant of signIn that turns away a user without an email.
SignInNeedsEmail(user, account) ==
    IF Truthy(user.email) THEN Returned(Bool(TRUE)) ELSE Returned(Bool(FALSE))

\* callbacks.signIn({ user, account, profile, email, credentials }):
\* isAllowedToSignIn is the constant true.
SignInCb(user, account) ==
    LET isAllowedToSignIn == TRUE
    IN  IF isAllowedToSignIn THEN Returned(Bool(TRUE)) ELSE Returned(Bool(FALSE))

-----------------------------------------------------------------------------
(* Objects the callbacks exchange *)

Obj == "object"

\* The reduced user projection attached to the token.
Projection(u) ==
    [kind |-> Obj, uuid |-> u.uuid, email |-> u.email, nickname |-> u.nickname,
     avatar_url |-> u.avatar_url, created_at |-> u.created_at]

\* A user record the persistence service already holds.
StoredUser ==
    [kind |-> Obj, uuid |-> Str(<<"uuid-old">>), email |-> Str(<<"a@x">>),
     nickname |-> Str(<<"Old", "Nick">>), avatar_url |-> Str(<<"old-pic">>),
     signin_type |-> Str(<<"oauth">>), signin_provider |-> Str(<<"github">>),
     signin_openid |-> Str(<<"42">>), created_at |-> Str(<<"t-old">>),
     signin_ip |-> Str(<<"9.9.9.9">>)]

Emails == {Undef, Null, Str(<<>>), Str(<<"a@x">>)}

\* The user the framework hands to the callbacks.
UserObjects ==
    {[kind |-> Obj, id |-> Str(<<"sub1">>), email |-> e, name |-> n, image |-> i] :
        e \in Emails, n \in {Undef, Str(<<"Ann">>)}, i \in {Undef, Str(<<"pic">>)}}

Users == {Undef} \cup UserObjects

AccountObjects ==
    {[kind |-> Obj, type |-> Str(<<"oauth">>), provider |-> Str(<<"github">>),
      providerAccountId |-> Str(<<"42">>)],
     [kind |-> Obj, type |-> Str(<<"credentials">>), provider |-> Str(<<"google-one-tap">>),
      providerAccountId |-> Str(<<"sub1">>)]}

Accounts == {Undef, Null} \cup AccountObjects

\* Session tokens: an object whose user field is absent (undefined), null,
\* or a projection attached earlier.
TokenObjects ==
    {[kind |-> Obj, sub |-> Str(<<"sub1">>), user |-> u] :
        u \in {Undef, Null, Projection(StoredUser)}}

Sessions ==
    {[kind |-> Obj, expires |-> Str(<<"2027">>), user |-> u] :
        u \in {Undef, [kind |-> Obj, name |-> Str(<<"Ann">>), email |-> Str(<<"a@x">>)]}}

-----------------------------------------------------------------------------
(* callbacks.session (config.ts 170-175) *)

\* Variant of the session callback that copies token.user whenever a token
\* is given.
SessionAlwaysCopy(session, token) ==
    [threw |-> FALSE,
     value |-> IF Truthy(token) THEN [session EXCEPT !.user = token.user] ELSE session,
     token |-> token]

\* callbacks.session({ session, token, user }): the session object is
\* assigned to in place and returned; `token` is what the token argument
\* holds afterwards.
SessionCb(session, token) ==
    [threw |-> FALSE,
     value |-> IF Truthy(token) /\ Truthy(token.user) /\ Truthy(token.user)
               THEN [session EXCEPT !.user = token.user]
               ELSE session,
     token |-> token]

CallSession ==
    /\ loaded
    /\ op = "none"
    /\ \E session \in Sessions, token \in {Undef, Null} \cup TokenObjects :
          /\ op' = "session"
          /\ inp' = [session |-> session, token |-> token]
          /\ out' = SessionCb(session, token)
    /\ UNCHANGED <<loadVars, flowVars>>

CallSignIn ==
    /\ loaded
    /\ op = "none"
    /\ \E user \in UserObjects, account \in Accounts :
          /\ op' = "signIn"
          /\ inp' = [user |-> user, account |-> account]
          /\ out' = SignInCb(user, account)
    /\ UNCHANGED <<loadVars, flowVars>>

-----------------------------------------------------------------------------
(* callbacks.jwt (config.ts 189-224) *)

\* How a helper (getUuid, getIsoTimestr, getClientIp) can answer.
UuidOutcomes == {Thrown(ServiceError), Returned(Str(<<"uuid-new">>))}
TimeOutcomes == {Thrown(ServiceError), Returned(Str(<<"t-now">>))}
IpOutcomes == {Thrown(ServiceError), Returned(Str(<<"1.2.3.4">>))}

\* How saveUser can answer: it throws, resolves with no record, resolves
\* with the candidate it was given, or resolves with the record it already
\* held for that email.
SaveOutcomes == {"throws", "undefined", "echo", "stored"}

Collaborators ==
    [uuid : UuidOutcomes, time : TimeOutcomes, ip : IpOutcomes, save : SaveOutcomes]

SaveUser(dbUser, how) ==
    CASE how = "throws" -> Thrown(ServiceError)
      [] how = "undefined" -> Returned(Undef)
      [] how = "echo" -> Returned(dbUser)
      [] OTHER -> Returned([StoredUser EXCEPT !.email = dbUser.email])

\* Variant of the guard that does not look at account.
JwtGuardNoAccount(user, account) ==
    Truthy(user) /\ Truthy(user.email)

\* if (user && user.email && account)
JwtGuard(user, account) ==
    Truthy(user) /\ Truthy(user.email) /\ Truthy(account)

\* The candidate record; account is an object here.
BuildDbUser(user, account, uuid, time, ip) ==
    [kind |-> Obj, uuid |-> uuid, email |-> user.email,
     nickname |-> OrElse(user.name, Str(<<>>)),
     avatar_url |-> OrElse(user.image, Str(<<>>)),
     signin_type |-> account.type, signin_provider |-> account.provider,
     signin_openid |-> account.providerAccountId,
     created_at |-> time, signin_ip |-> ip]

\* Variant that attaches the whole saved record.
TokenUserWhole(savedUser) == savedUser

\* The object literal assigned to token.user.
TokenUser(savedUser) ==
    [kind |-> Obj, uuid |-> savedUser.uuid, email |-> savedUser.email,
     nickname |-> savedUser.nickname, avatar_url |-> savedUser.avatar_url,
     created_at |-> savedUser.created_at]

JwtResult(token, calls, saved) ==
    [threw |-> FALSE, value |-> token, calls |-> calls, saved |-> saved]

\* Variant of the outer handler that lets the exception out.
OuterRethrow(token, calls) ==
    [threw |-> TRUE, value |-> ServiceError, calls |-> calls, saved |-> <<>>]

\* catch (e) { console.error("jwt callback error:", e); return token; }
OuterCatch(token, calls) == JwtResult(token, calls, <<>>)

\* try { savedUser = await saveUser(dbUser); token.user = {...} }
\* catch (e) { console.error(...) }, then `return token`. Reading a field
\* of a missing savedUser throws inside the inner try, before the
\* assignment to token.user.
SaveAndAttach(token, dbUser, how, calls) ==
    LET r == SaveUser(dbUser, how)
        calls2 == Append(calls, "saveUser")
    IN  IF r.threw \/ r.value.kind # Obj
        THEN JwtResult(token, calls2, <<dbUser>>)
        ELSE JwtResult([token EXCEPT !.user = TokenUser(r.value)], calls2, <<dbUser>>)

\* callbacks.jwt({ token, user, account }). The object literal is evaluated
\* field by field: getUuid(), user.*, account.*, getIsoTimestr(),
\* await getClientIp(); whichever throws sends control to the outer catch.
JwtCb(token, user, account, co) ==
    IF ~JwtGuard(user, account) THEN JwtResult(token, <<>>, <<>>)
    ELSE IF co.uuid.threw THEN OuterCatch(token, <<"getUuid">>)
    ELSE IF account.kind # Obj THEN OuterCatch(token, <<"getUuid">>)
    ELSE IF co.time.threw THEN OuterCatch(token, <<"getUuid", "getIsoTimestr">>)
    ELSE IF co.ip.threw
         THEN OuterCatch(token, <<"getUuid", "getIsoTimestr", "getClientIp">>)
    ELSE SaveAndAttach(token,
                       BuildDbUser(user, account, co.uuid.value, co.time.value,
                                   co.ip.value),
                       co.save,
                       <<"getUuid", "getIsoTimestr", "getClientIp">>)

CallJwt ==
    /\ loaded
    /\ op = "none"
    /\ \E token \in TokenObjects, user \in Users, account \in Accounts,
          co \in Collaborators :
          /\ op' = "jwt"
          /\ inp' = [token |-> token, user |-> user, account |-> account, co |-> co]
          /\ out' = JwtCb(token, user, account, co)
    /\ UNCHANGED <<loadVars, flowVars>>

-----------------------------------------------------------------------------
(* One Tap authorize (config.ts 28-73) *)

ClientIds == SecretValues

CredentialInputs == {Undef, [kind |-> Obj, credential |-> Str(<<"id-token">>)]}

\* The tokeninfo payload, as response.json() yields it.
Payloads ==
    {[kind |-> Obj, email |-> e, sub |-> Str(<<"sub1">>), given_name |-> g,
      family_name |-> f, email_verified |-> v, picture |-> Str(<<"pic">>)] :
        e \in {Undef, Str(<<>>), Str(<<"a@x">>)},
        g \in {Undef, Str(<<"Ann">>)},
        f \in {Undef, Str(<<"Lee">>)},
        v \in {Undef, Str(<<"true">>)}}

\* What fetch does: it rejects (network failure), or resolves with a
\* response whose body is not JSON ("malformed"), is the JSON null, or is a
\* payload object.
Bodies == {Str(<<"malformed">>), Null} \cup Payloads

FetchOutcomes ==
    {Thrown(TypeError)}
    \cup {Returned([ok |-> ok, body |-> b]) : ok \in BOOLEAN, b \in Bodies}

\* response.json(): throws a SyntaxError on a body that is not JSON.
ResponseJson(body) ==
    IF body.kind = "string" THEN Thrown(SyntaxError) ELSE Returned(body)

\* The user object authorize returns.
OneTapUser(payload) ==
    [kind |-> Obj, id |-> payload.sub,
     name |-> Str(JoinPart(payload.given_name) \o <<" ">> \o JoinPart(payload.family_name)),
     email |-> payload.email, image |-> payload.picture,
     emailVerified |-> IF Truthy(payload.email_verified) THEN DateNow ELSE Null]

\* authorize(credentials, req): nothing in it catches an exception.
Authorize(googleClientId, credentials, fetched) ==
    IF ~Truthy(googleClientId) THEN Returned(Null)
    ELSE IF credentials.kind # Obj THEN Thrown(TypeError)
    ELSE IF fetched.threw THEN Thrown(fetched.value)
    ELSE IF ~fetched.value.ok THEN Returned(Null)
    ELSE LET payload == ResponseJson(fetched.value.body)
         IN  IF payload.threw THEN Thrown(payload.value)
             ELSE IF ~Truthy(payload.value) THEN Returned(Null)
             ELSE IF ~Truthy(payload.value.email) THEN Returned(Null)
             ELSE Returned(OneTapUser(payload.value))

HasOneTap == \E i \in 1..Len(providers) : providers[i].id = "google-one-tap"

CallAuthorize ==
    /\ loaded
    /\ op = "none"
    /\ HasOneTap
    /\ \E googleClientId \in ClientIds, credentials \in CredentialInputs,
          fetched \in FetchOutcomes :
          /\ op' = "authorize"
          /\ inp' = [googleClientId |-> googleClientId, credentials |-> credentials,
                     fetched |-> fetched]
          /\ out' = Authorize(googleClientId, credentials, fetched)
    /\ UNCHANGED <<loadVars, flowVars>>

-----------------------------------------------------------------------------
(* The framework-driven sign-in flow:                                      *)
(* unauthenticated -> (authorize / OAuth exchange) -> signIn -> jwt ->     *)
(* session -> authenticated                                                *)

\* The token the framework builds for a sign-in before it calls jwt.
FreshToken(user) == [kind |-> Obj, sub |-> user.id, user |-> Undef]

\* The session the framework builds before it calls session.
DefaultSession(user) ==
    [kind |-> Obj, expires |-> Str(<<"2027">>),
     user |-> [kind |-> Obj, name |-> user.name, email |-> user.email]]

FlowIdle ==
    /\ fUser' = Undef
    /\ fAccount' = Undef
    /\ fToken' = Undef
    /\ fSession' = Undef
    /\ fCo' = Undef

\* A One Tap sign-in: the framework calls authorize; null or an exception
\* ends the attempt on the framework's error page.
FlowAuthorize ==
    /\ pc = "unauthenticated"
    /\ HasOneTap
    /\ \E credentials \in CredentialInputs, fetched \in FetchOutcomes :
          LET r == Authorize(env["NEXT_PUBLIC_AUTH_GOOGLE_ID"], credentials, fetched)
          IN  IF r.threw \/ r.value.kind # Obj
              THEN pc' = "error" /\ UNCHANGED <<fUser, fAccount>>
              ELSE /\ pc' = "signIn"
                   /\ fUser' = r.value
                   /\ fAccount' = [kind |-> Obj, type |-> Str(<<"credentials">>),
                                   provider |-> Str(<<"google-one-tap">>),
                                   providerAccountId |-> r.value.id]
    /\ UNCHANGED <<loadVars, callVars, fToken, fSession, fCo>>

\* A completed OAuth exchange with one of the registered OAuth providers.
FlowOAuth ==
    /\ pc = "unauthenticated"
    /\ \E i \in 1..Len(providers), user \in UserObjects :
          /\ providers[i].type # "credentials"
          /\ fUser' = user
          /\ fAccount' = [kind |-> Obj, type |-> Str(<<providers[i].type>>),
                          provider |-> Str(<<providers[i].id>>),
                          providerAccountId |-> user.id]
    /\ pc' = "signIn"
    /\ UNCHANGED <<loadVars, callVars, fToken, fSession, fCo>>

FlowSignIn ==
    /\ pc = "signIn"
    /\ LET r == SignInCb(fUser, fAccount)
       IN  pc' = IF r.threw THEN "error"
                 ELSE IF r.value = Bool(TRUE) THEN "jwt" ELSE "denied"
    /\ UNCHANGED <<loadVars, callVars, fUser, fAccount, fToken, fSession, fCo>>

FlowJwt ==
    /\ pc = "jwt"
    /\ \E co \in Collaborators :
          LET r == JwtCb(FreshToken(fUser), fUser, fAccount, co)
          IN  /\ fCo' = co
              /\ IF r.threw
                 THEN pc' = "error" /\ UNCHANGED fToken
                 ELSE pc' = "session" /\ fToken' = r.value
    /\ UNCHANGED <<loadVars, callVars, fUser, fAccount, fSession>>

FlowSession ==
    /\ pc = "session"
    /\ LET r == SessionCb(DefaultSession(fUser), fToken)
       IN  IF r.threw
           THEN pc' = "error" /\ UNCHANGED fSession
           ELSE pc' = "authenticated" /\ fSession' = r.value
    /\ UNCHANGED <<loadVars, callVars, fUser, fAccount, fToken, fCo>>

\* A later session request: jwt without user and account, then session.
FlowRefresh ==
    /\ pc = "authenticated"
    /\ LET j == JwtCb(fToken, Undef, Undef, fCo)
           s == SessionCb(DefaultSession(fUser), j.value)
       IN  /\ fToken' = j.value
           /\ fSession' = s.value
    /\ UNCHANGED <<loadVars, callVars, pc, fUser, fAccount, fCo>>

FlowSignOut ==
    /\ pc \in {"authenticated", "denied", "error"}
    /\ pc' = "unauthenticated"
    /\ FlowIdle
    /\ UNCHANGED <<loadVars, callVars>>

-----------------------------------------------------------------------------
(* Specifications *)

\* Every flag "true" and every secret set.
FullEnv == [v \in EnvVars |-> IF v \in FlagVars THEN Str(<<"true">>) ELSE Str(<<"id">>)]

CallIdle == op = "none" /\ inp = Undef /\ out = Undef

FlowStart ==
    /\ pc = "unauthenticated"
    /\ fUser = Undef
    /\ fAccount = Undef
    /\ fToken = Undef
    /\ fSession = Undef
    /\ fCo = Undef

\* The module has been loaded; the framework invokes callbacks one by one.
Init ==
    /\ env = FullEnv
    /\ loaded = TRUE
    /\ providers = BuildProviders(env)
    /\ providerMap = BuildProviderMap(providers)
    /\ CallIdle
    /\ FlowStart

\* The framework takes the callback's result (or its exception); the callbacks
\* keep no state of their own between invocations.
Return ==
    /\ op # "none"
    /\ op' = "none"
    /\ inp' = Undef
    /\ out' = Undef
    /\ UNCHANGED <<loadVars, flowVars>>

Next ==
    \/ CallAuthorize
    \/ CallSignIn
    \/ CallRedirect
    \/ CallSession
    \/ CallJwt
    \/ Return

Spec == Init /\ [][Next]_vars

\* Before the module is loaded, under every environment.
LoadInit ==
    /\ env \in Envs
    /\ loaded = FALSE
    /\ providers = <<>>
    /\ providerMap = <<>>
    /\ CallIdle
    /\ FlowStart

LoadNext == LoadModule

LoadSpec == LoadInit /\ [][LoadNext]_vars

\* The sign-in flow; the framework carries a started request through its
\* callbacks.
FlowNext ==
    \/ FlowAuthorize
    \/ FlowOAuth
    \/ FlowSignIn
    \/ FlowJwt
    \/ FlowSession
    \/ FlowRefresh
    \/ FlowSignOut

FlowSpec ==
    /\ Init
    /\ [][FlowNext]_vars
    /\ WF_vars(FlowSignIn)
    /\ WF_vars(FlowJwt)
    /\ WF_vars(FlowSession)

-----------------------------------------------------------------------------
(* Properties *)

Called(name) == op = name

\* user, user.email and account are all present.
AllPresent(user, account) ==
    user.kind = Obj /\ Truthy(user.email) /\ account.kind = Obj

\* How often a collaborator was called in one invocation.
CallCount(calls, name) == Cardinality({i \in 1..Len(calls) : calls[i] = name})

HelperThrew(co) == co.uuid.threw \/ co.time.threw \/ co.ip.threw

\* The three-case rule of the redirect callback.
RedirectRule(url, baseUrl) ==
    IF StartsWith(url, "/") THEN baseUrl \o url
    ELSE IF ParseURL(url).ok /\ ParseURL(url).origin = baseUrl THEN url
    ELSE baseUrl

\* C1: for every url and base url the redirect callback returns base+url for
\* a relative path, url itself for an absolute url of the base's origin, and
\* the base url in every other case; so what it returns never has an origin
\* other than the base url's.
C1_RedirectRule ==
    Called("redirect") =>
        /\ ~out.threw
        /\ out.value = RedirectRule(inp.url, inp.baseUrl)
        /\ (ParseURL(inp.baseUrl).origin = inp.baseUrl =>
                ParseURL(out.value).origin = inp.baseUrl)

\* The failed verifications C2 lists, for a credential that was handed in.
FailedVerification ==
    /\ inp.credentials.kind = Obj
    /\ \/ ~Truthy(inp.googleClientId)
       \/ inp.fetched.threw
       \/ ~inp.fetched.value.ok
       \/ inp.fetched.value.body.kind # Obj
       \/ ~Truthy(inp.fetched.value.body.email)

\* C2: authorize ends every failed verification (no client id, failed http
\* call, no payload or a malformed one, no email) by returning null, never
\* with an exception.
C2_FailureIsNull ==
    Called("authorize") /\ FailedVerification =>
        ~out.threw /\ out.value = Null

\* C3: with user, user.email and account present and a collaborator
\* throwing, jwt does not raise and returns the token it was given, with
\* token.user neither attached nor changed.
C3_CollaboratorFailure ==
    /\ Called("jwt")
    /\ AllPresent(inp.user, inp.account)
    /\ (HelperThrew(inp.co) \/ inp.co.save = "throws")
    => ~out.threw /\ out.value = inp.token

C3_Witness ==
    /\ Called("jwt")
    /\ AllPresent(inp.user, inp.account)
    /\ inp.co.ip.threw
    /\ inp.token.user = Projection(StoredUser)
    /\ out.calls = <<"getUuid", "getIsoTimestr", "getClientIp">>

\* C4: none of signIn, redirect, session, jwt ever throws; each completes
\* with a return value for every input.
C4_NoCallbackThrows ==
    op \in {"signIn", "redirect", "session", "jwt"} => ~out.threw

FlagTrue(v) == env[v] = Str(<<"true">>)
IsSet(v) == Truthy(env[v])

Occurrences(id) == Cardinality({i \in 1..Len(providers) : providers[i].id = id})

Rank(id) ==
    CASE id = "google-one-tap" -> 1
      [] id = "google" -> 2
      [] id = "github" -> 3
      [] OTHER -> 0

\* C5: the provider list holds exactly the methods whose flag is "true" and
\* whose required variables are set (to a non-empty value), each at most
\* once, in the order One Tap, Google, GitHub; it is empty when no variable
\* is set.
C5_ProvidersMatchEnv ==
    loaded =>
        /\ Occurrences("google-one-tap") =
              IF FlagTrue("NEXT_PUBLIC_AUTH_GOOGLE_ONE_TAP_ENABLED")
                 /\ IsSet("NEXT_PUBLIC_AUTH_GOOGLE_ID") THEN 1 ELSE 0
        /\ Occurrences("google") =
              IF FlagTrue("NEXT_PUBLIC_AUTH_GOOGLE_ENABLED")
                 /\ IsSet("AUTH_GOOGLE_ID") /\ IsSet("AUTH_GOOGLE_SECRET") THEN 1 ELSE 0
        /\ Occurrences("github") =
              IF FlagTrue("NEXT_PUBLIC_AUTH_GITHUB_ENABLED")
                 /\ IsSet("AUTH_GITHUB_ID") /\ IsSet("AUTH_GITHUB_SECRET") THEN 1 ELSE 0
        /\ \A i \in 1..Len(providers) : Rank(providers[i].id) > 0
        /\ \A i, j \in 1..Len(providers) :
              i < j => Rank(providers[i].id) < Rank(providers[j].id)
        /\ ((\A v \in EnvVars : env[v] = Undef) => providers = <<>>)

C5_Witness ==
    /\ loaded
    /\ FlagTrue("NEXT_PUBLIC_AUTH_GOOGLE_ENABLED")
    /\ IsSet("AUTH_GOOGLE_ID")
    /\ env["AUTH_GOOGLE_SECRET"] = Str(<<>>)
    /\ Len(providers) = 2
    /\ providers[1].id = "google-one-tap"
    /\ providers[2].id = "github"

\* Where the provider with this id stands in the provider list.
Position(id) == CHOOSE k \in 1..Len(providers) : providers[k].id = id

\* C6: providerMap has no entry with id "google-one-tap" and exactly one
\* {id, name} entry for every other provider of the list, in the list's order.
C6_ProviderMap ==
    loaded =>
        /\ \A i \in 1..Len(providerMap) :
              /\ providerMap[i].id # "google-one-tap"
              /\ DOMAIN providerMap[i] = {"id", "name"}
        /\ \A k \in 1..Len(providers) :
              providers[k].id # "google-one-tap" =>
                 Cardinality({i \in 1..Len(providerMap) :
                                 providerMap[i] = [id |-> providers[k].id,
                                                   name |-> providers[k].name]}) = 1
        /\ Len(providerMap) = Len(providers) - Occurrences("google-one-tap")
        /\ \A i, j \in 1..Len(providerMap) :
              i < j => Position(providerMap[i].id) < Position(providerMap[j].id)

C6_Witness ==
    /\ loaded
    /\ Len(providers) = 3
    /\ providerMap = <<[id |-> "google", name |-> "Google"],
                       [id |-> "github", name |-> "GitHub"]>>

\* C7: session returns the session unchanged when the token is absent or
\* carries no token.user; otherwise it sets session.user to token.user and
\* changes no other field; it never modifies the token.
C7_SessionFrame ==
    Called("session") =>
        /\ ~out.threw
        /\ out.token = inp.token
        /\ IF Truthy(inp.token) /\ Truthy(inp.token.user)
           THEN /\ out.value.user = inp.token.user
                /\ DOMAIN out.value = DOMAIN inp.session
                /\ \A f \in DOMAIN inp.session \ {"user"} : out.value[f] = inp.session[f]
           ELSE out.value = inp.session

C7_Witness ==
    /\ Called("session")
    /\ inp.session.user # Undef
    /\ inp.token.kind = Obj
    /\ inp.token.user = Projection(StoredUser)
    /\ out.value.user = Projection(StoredUser)

\* C8 as stated: saveUser is called only when user, user.email and account
\* are all present; with one of them missing no collaborator is called and
\* the token is returned untouched; with all three present saveUser is
\* called exactly once.
C8_ExactlyOnce ==
    Called("jwt") =>
        IF AllPresent(inp.user, inp.account)
        THEN CallCount(out.calls, "saveUser") = 1
        ELSE out.calls = <<>> /\ ~out.threw /\ out.value = inp.token

\* C8 amended: with one of user, user.email, account missing no collaborator
\* is called and the token is returned untouched; with all three present
\* saveUser is called at most once, and exactly once when getUuid,
\* getIsoTimestr and getClientIp all return.
C8_AtMostOnce ==
    Called("jwt") =>
        IF AllPresent(inp.user, inp.account)
        THEN /\ CallCount(out.calls, "saveUser") <= 1
             /\ (~HelperThrew(inp.co) <=> CallCount(out.calls, "saveUser") = 1)
             /\ Len(out.saved) = CallCount(out.calls, "saveUser")
        ELSE out.calls = <<>> /\ ~out.threw /\ out.value = inp.token

C8_Witness ==
    /\ Called("jwt")
    /\ AllPresent(inp.user, inp.account)
    /\ inp.co.time.threw
    /\ ~inp.co.uuid.threw
    /\ CallCount(out.calls, "saveUser") = 0
    /\ out.calls = <<"getUuid", "getIsoTimestr">>

SaveFailed == fCo.save \in {"throws", "undefined"}

C9_NeverDenied == pc # "denied"

C9_Degraded ==
    pc = "authenticated" /\ SaveFailed =>
        /\ fToken.user = Undef
        /\ fSession = DefaultSession(fUser)

\* C9: in the sign-in flow signIn always returns true, so "denied" is never
\* reached; a flow whose authorize / OAuth exchange succeeded goes on through
\* jwt and session and ends authenticated, also when the user save fails,
\* and then the session carries no user projection from this sign-in.
C9_FlowCompletes ==
    /\ []C9_NeverDenied
    /\ []C9_Degraded
    /\ (pc = "signIn") ~> (pc = "authenticated")

C9_Witness ==
    /\ pc = "authenticated"
    /\ AllPresent(fUser, fAccount)
    /\ ~HelperThrew(fCo)
    /\ fCo.save = "throws"
    /\ fSession = DefaultSession(fUser)

ProjectionFields == {"kind", "uuid", "email", "nickname", "avatar_url", "created_at"}

\* C10: when jwt runs with user, user.email and account present and saveUser
\* succeeds, the returned token's user is exactly the five-field projection
\* of the record saveUser returned, and no other field of the token changes.
C10_ProjectionOfSaved ==
    /\ Called("jwt")
    /\ AllPresent(inp.user, inp.account)
    /\ ~HelperThrew(inp.co)
    /\ inp.co.save \in {"echo", "stored"}
    => LET saved == SaveUser(out.saved[1], inp.co.save).value
       IN  /\ ~out.threw
           /\ DOMAIN out.value.user = ProjectionFields
           /\ \A f \in ProjectionFields \ {"kind"} : out.value.user[f] = saved[f]
           /\ DOMAIN out.value = DOMAIN inp.token
           /\ \A f \in DOMAIN inp.token \ {"user"} : out.value[f] = inp.token[f]

C10_Witness ==
    /\ Called("jwt")
    /\ AllPresent(inp.user, inp.account)
    /\ ~HelperThrew(inp.co)
    /\ inp.co.save = "stored"
    /\ ~out.threw
    /\ out.saved[1].uuid = Str(<<"uuid-new">>)
    /\ out.value.user.uuid = Str(<<"uuid-old">>)
    /\ inp.token.user = Null

====
